---- MODULE Spec2Model ----
(***************************************************************************)
(* A model of src/app.py, the "Data Insights" dashboard: one script that   *)
(* the UI framework runs top to bottom on every interaction (a "rerun").   *)
(* The session keeps the chart configuration store and the widget values   *)
(* between reruns; everything else is recomputed by each rerun.            *)
(*                                                                         *)
(* Values.  Python's None and a missing cell (NaN) are the empty tuple, a  *)
(* present value v is the one-element tuple <<v>>.  Cell values are        *)
(* integers; a category value k stands for the k-th label in ascending     *)
(* order.  A mean is kept as an exact fraction [num, den] in lowest terms, *)
(* and 0/0 is the mean of no entries (NaN).                                *)
(***************************************************************************)
EXTENDS Integers, Sequences, FiniteSets, TLC

VARIABLES
    uploaded_file,   \* the file uploader's value: None or <<file name>>
    has_store,       \* "chart_configs" in st.session_state
    chart_configs,   \* st.session_state.chart_configs
    widgets,         \* the keyed widgets' values kept by the session, per card
    query_widget,    \* the text input's value kept by the session, None if not drawn
    charts,          \* the figures painted by the last rerun
    summary,         \* the summary section painted by the last rerun, None if not reached
    answer,          \* the query section's message of the last rerun, None if none
    error,           \* the exception that ended the last rerun, "none" if it completed
    last_event,      \* the interaction that caused the last rerun
    edits,           \* how many widget values (the uploader's included) the user
                     \* has changed in this session
    mcu,             \* one call of make_columns_unique, run step by step
    plot             \* one construction of a plot frame

vars == <<uploaded_file, has_store, chart_configs, widgets, query_widget, charts,
          summary, answer, error, last_event, edits, mcu, plot>>

appvars == <<uploaded_file, has_store, chart_configs, widgets, query_widget, charts,
             summary, answer, error, last_event, edits>>

\* ---------------------------------------------------------------- bounds
\* the longest list of names given to make_columns_unique
MaxCols == 4
\* the most rows of a frame a plot frame is built from
MaxRows == 3
\* the most configurations added to the store in one session
MaxCharts == 2
\* the most widget values the user changes in one session
MaxEdits == 3

\* ---------------------------------------------------------------- values
None == <<>>
Some(v) == <<v>>
NaN == <<>>

Range(s) == {s[i] : i \in 1..Len(s)}

SeqsUpTo(S, n) == UNION {[1..k -> S] : k \in 0..n}

\* Python truthiness of a value that is None or a string
Truthy(opt) == opt # None /\ opt[1] # ""

RECURSIVE GCD(_, _)
GCD(a, b) == IF b = 0 THEN a ELSE GCD(b, a % b)

Fraction(n, d) == IF d = 0 THEN [num |-> 0, den |-> 0]
                  ELSE [num |-> n \div GCD(n, d), den |-> d \div GCD(n, d)]

\* ---------------------------------------------------------------- make_columns_unique
\* variant: the repeat count taken before it is incremented
SuffixedWrong(col, n) == col \o "." \o ToString(n - 1)

Suffixed(col, n) == col \o "." \o ToString(n)

\* one pass of the loop body: st = [seen, new_cols]
mcu_body(st, col) ==
    IF col \in DOMAIN st.seen
    THEN [seen |-> [st.seen EXCEPT ![col] = @ + 1],
          new_cols |-> Append(st.new_cols, Suffixed(col, st.seen[col] + 1))]
    ELSE [seen |-> (col :> 0) @@ st.seen,
          new_cols |-> Append(st.new_cols, col)]

RECURSIVE mcu_loop(_, _, _)
mcu_loop(st, columns, i) ==
    IF i > Len(columns) THEN st
    ELSE mcu_loop(mcu_body(st, columns[i]), columns, i + 1)

make_columns_unique(columns) ==
    mcu_loop([seen |-> << >>, new_cols |-> << >>], columns, 1).new_cols

\* ---------------------------------------------------------------- data frames
\* A frame is [columns, numeric, rows]: the column labels, whether each column's
\* dtype is a number kind, and the rows, each a tuple of cells in column order.

Min(S) == CHOOSE m \in S : \A n \in S : m <= n

\* the strict orders the script sorts by
Before(order, a, b) ==
    CASE order = "ascending" -> a < b
      [] order = "count_descending" -> a[2] > b[2]
      [] order = "mean_descending" ->
           a[2].den # 0 /\ (b[2].den = 0 \/ a[2].num * b[2].den > b[2].num * a[2].den)
      [] order = "column_then_count" ->
           \/ a.rank < b.rank
           \/ a.rank = b.rank /\ a.Count > b.Count

\* a stable sort of the sequence s: each element's place is one more than the
\* number of elements that go before it
StableSort(s, order) ==
    LET n == Len(s)
        place == [i \in 1..n |-> 1 + Cardinality({j \in 1..n :
                     Before(order, s[j], s[i]) \/ (~Before(order, s[i], s[j]) /\ j < i)})]
    IN [p \in 1..n |-> s[CHOOSE i \in 1..n : place[i] = p]]

RECURSIVE FilterIdx(_, _, _)
FilterIdx(s, keep, i) ==
    IF i > Len(s) THEN << >>
    ELSE (IF keep[i] THEN <<s[i]>> ELSE << >>) \o FilterIdx(s, keep, i + 1)

ColIndex(df, name) == CHOOSE i \in 1..Len(df.columns) : df.columns[i] = name

\* df[name]
Column(df, name) == [r \in 1..Len(df.rows) |-> df.rows[r][ColIndex(df, name)]]

\* df.select_dtypes(include="number").columns.tolist()
numeric_cols(df) == FilterIdx(df.columns, df.numeric, 1)

\* df.select_dtypes(exclude="number").columns.tolist()
categorical_cols(df) ==
    FilterIdx(df.columns, [i \in 1..Len(df.numeric) |-> ~df.numeric[i]], 1)

\* Series.value_counts(): a tally of the non-null cells in first-seen order,
\* then sorted by count, largest first
RECURSIVE vc_tally(_, _, _)
vc_tally(col, i, acc) ==
    IF i > Len(col) THEN acc
    ELSE IF col[i] = NaN THEN vc_tally(col, i + 1, acc)
    ELSE LET v == col[i][1] IN
         IF v \in DOMAIN acc.n
         THEN vc_tally(col, i + 1, [acc EXCEPT !.n[v] = @ + 1])
         ELSE vc_tally(col, i + 1, [keys |-> Append(acc.keys, v), n |-> (v :> 1) @@ acc.n])

\* the tally t as (value, count) pairs, first seen first
vc_pairs(t) == [k \in 1..Len(t.keys) |-> <<t.keys[k], t.n[t.keys[k]]>>]

null_count(col) == Cardinality({i \in 1..Len(col) : col[i] = NaN})

\* variant: value_counts(dropna=False), the missing cells tallied under -1
value_counts_keepna(col) ==
    StableSort(vc_pairs(vc_tally(col, 1, [keys |-> << >>, n |-> << >>]))
               \o (IF null_count(col) > 0 THEN << <<0 - 1, null_count(col)>> >> ELSE << >>),
               "count_descending")

value_counts(col) ==
    StableSort(vc_pairs(vc_tally(col, 1, [keys |-> << >>, n |-> << >>])), "count_descending")

\* Series.head(n)
head(s, n) == SubSeq(s, 1, IF Len(s) < n THEN Len(s) ELSE n)

\* df.groupby(x)[y]: per non-null key, the sum and the number of the non-null
\* entries of y, the keys in ascending order
RECURSIVE gb_fold(_, _, _, _)
gb_fold(keys, vals, i, acc) ==
    IF i > Len(keys) THEN acc
    ELSE IF keys[i] = NaN THEN gb_fold(keys, vals, i + 1, acc)
    ELSE LET k == keys[i][1]
             cur == IF k \in DOMAIN acc THEN acc[k] ELSE [sum |-> 0, count |-> 0]
             new == IF vals[i] = NaN THEN cur
                    ELSE [sum |-> cur.sum + vals[i][1], count |-> cur.count + 1]
         IN gb_fold(keys, vals, i + 1, (k :> new) @@ acc)

RECURSIVE SetToSeq(_)
SetToSeq(S) == IF S = {} THEN << >>
               ELSE LET e == CHOOSE x \in S : TRUE IN <<e>> \o SetToSeq(S \ {e})

gb_sorted(g) == [keys |-> StableSort(SetToSeq(DOMAIN g), "ascending"), g |-> g]

groupby(df, x, y) == gb_sorted(gb_fold(Column(df, x), Column(df, y), 1, << >>))

\* variant: count() where sum() is meant
gb_sum_as_count(gb) == [k \in 1..Len(gb.keys) |-> <<gb.keys[k], gb.g[gb.keys[k]].count>>]

gb_sum(gb) == [k \in 1..Len(gb.keys) |-> <<gb.keys[k], gb.g[gb.keys[k]].sum>>]

gb_mean(gb) == [k \in 1..Len(gb.keys) |->
                  <<gb.keys[k], Fraction(gb.g[gb.keys[k]].sum, gb.g[gb.keys[k]].count)>>]

gb_count(gb) == [k \in 1..Len(gb.keys) |-> <<gb.keys[k], gb.g[gb.keys[k]].count>>]

\* ---------------------------------------------------------------- the plot frame
ChartTypes == <<"Bar", "Line", "Pie", "Doughnut">>
AggMethods == <<"Sum", "Mean", "Count">>
ColorThemes == <<"Plotly", "Set1", "Set2", "Set3", "Dark2", "Pastel">>

\* plot_df of one configuration: [columns, rows], the rows (category, value) pairs
plot_df(df, cfg) ==
    LET x == cfg.x IN
    IF cfg.chart_type \in {"Bar", "Line"}
    THEN IF cfg.use_agg /\ Truthy(cfg.y)
         THEN [columns |-> <<x, "value">>,
               rows |-> IF cfg.agg = Some("Sum") THEN gb_sum(groupby(df, x, cfg.y[1]))
                        ELSE IF cfg.agg = Some("Mean") THEN gb_mean(groupby(df, x, cfg.y[1]))
                        ELSE gb_count(groupby(df, x, cfg.y[1]))]
         ELSE [columns |-> <<x, "value">>, rows |-> value_counts(Column(df, x))]
    ELSE [columns |-> <<x, "value">>, rows |-> value_counts(Column(df, x))]


\* ---------------------------------------------------------------- uploaded files
\* The files a user uploads, each given by the frame the tabular parser returns
\* for it (the parser has already made repeated header labels distinct).  A column
\* with no value at all is parsed as a float column, so it is numeric.
Files == {"cars.csv", "sales.csv", "dealers.csv", "blank_make.csv"}

Parsed(name) ==
    CASE name = "cars.csv" ->
           [columns |-> <<"make", "price">>, numeric |-> <<FALSE, TRUE>>,
            rows |-> << <<Some(1), Some(10)>>, <<Some(1), Some(20)>>, <<Some(2), Some(30)>> >>]
      [] name = "sales.csv" ->
           [columns |-> <<"price", "qty">>, numeric |-> <<TRUE, TRUE>>,
            rows |-> << <<Some(10), Some(1)>>, <<Some(20), NaN>> >>]
      [] name = "dealers.csv" ->
           [columns |-> <<"make", "model">>, numeric |-> <<FALSE, FALSE>>,
            rows |-> << <<Some(1), Some(1)>>, <<Some(1), Some(2)>>, <<Some(2), NaN>> >>]
      [] name = "blank_make.csv" ->
           [columns |-> <<"make", "model">>, numeric |-> <<TRUE, FALSE>>,
            rows |-> << <<NaN, Some(1)>>, <<NaN, Some(2)>> >>]

\* lines 32-40: parse, then rename the columns
read_file(name) ==
    LET raw == Parsed(name) IN [raw EXCEPT !.columns = make_columns_unique(raw.columns)]

\* ---------------------------------------------------------------- widgets
\* A keyed widget returns the value the session holds for its key when that value
\* is still one it offers, and its default otherwise.
selectbox(options, stored) ==
    IF options = << >> THEN None
    ELSE IF stored # None /\ stored[1] \in Range(options) THEN stored
    ELSE Some(options[1])

checkbox(stored) == IF stored = None THEN FALSE ELSE stored[1]

slider(lo, hi, value, stored) ==
    IF stored # None /\ stored[1] >= lo /\ stored[1] <= hi THEN stored[1] ELSE value

NoWidgets == [type |-> None, x |-> None, agg_check |-> None, y |-> None,
              agg |-> None, color |-> None, top |-> None]

WidgetsAt(w, i) == IF i <= Len(w) THEN w[i] ELSE NoWidgets

\* ---------------------------------------------------------------- the store
first_column(df) == df.columns[1]

\* variant: another default for top_n
DefaultConfigTop10(df) ==
    [chart_type |-> "Bar", x |-> first_column(df), y |-> None, use_agg |-> FALSE,
     agg |-> None, top_n |-> 10, color_scheme |-> "Plotly"]

\* lines 79-87
DefaultConfig(df) ==
    [chart_type |-> "Bar", x |-> first_column(df), y |-> None, use_agg |-> FALSE,
     agg |-> None, top_n |-> 15, color_scheme |-> "Plotly"]

\* variant: the store initialised on every run
init_store_always(present, store) == << >>

\* lines 72-73
init_store(present, store) == IF present THEN store ELSE << >>

\* lines 113-126: the value column and the aggregation method of a card
\* variant: the else branch (lines 124-126) left out
card_y_agg_stale(df, cfg, chart_type, use_agg, w) ==
    IF chart_type \in {"Bar", "Line"} /\ use_agg
    THEN [y |-> selectbox(numeric_cols(df), w.y), agg |-> selectbox(AggMethods, w.agg)]
    ELSE [y |-> cfg.y, agg |-> cfg.agg]

card_y_agg(df, cfg, chart_type, use_agg, w) ==
    IF chart_type \in {"Bar", "Line"} /\ use_agg
    THEN [y |-> selectbox(numeric_cols(df), w.y), agg |-> selectbox(AggMethods, w.agg)]
    ELSE [y |-> None, agg |-> None]

\* lines 90-138: one configuration card; the configuration after it, and the
\* values its widgets now hold
Card(df, cfg, w) ==
    LET chart_type == selectbox(ChartTypes, w.type)[1]
        x == selectbox(df.columns, w.x)[1]
        use_agg == checkbox(w.agg_check)
        ya == card_y_agg(df, cfg, chart_type, use_agg, w)
        color_scheme == selectbox(ColorThemes, w.color)[1]
        top_n == slider(5, 30, cfg.top_n, w.top)
    IN [cfg |-> [chart_type |-> chart_type, x |-> x, y |-> ya.y, use_agg |-> use_agg,
                 agg |-> ya.agg, top_n |-> top_n, color_scheme |-> color_scheme],
        w |-> [type |-> Some(chart_type), x |-> Some(x), agg_check |-> Some(use_agg),
               y |-> ya.y, agg |-> ya.agg, color |-> Some(color_scheme),
               top |-> Some(top_n)]]

\* ---------------------------------------------------------------- the renderer
\* i is enumerate's index, counted from 0
\* variant: the title numbered from 0
ChartTitleFromZero(i) == "Chart " \o ToString(i)

ChartTitle(i) == "Chart " \o ToString(i + 1)

\* lines 148-201: the figure of one configuration; hole in hundredths
Figure(df, cfg, i) ==
    [kind |-> IF cfg.chart_type = "Bar" THEN "bar"
              ELSE IF cfg.chart_type = "Line" THEN "line" ELSE "pie",
     data |-> plot_df(df, cfg),
     x |-> cfg.x,
     colors |-> cfg.color_scheme,
     hole |-> IF cfg.chart_type = "Doughnut" THEN 45 ELSE 0,
     title |-> ChartTitle(i),
     height |-> 500]

\* lines 146-201
generate_all(df, store) == [k \in 1..Len(store) |-> Figure(df, store[k], k - 1)]

\* ---------------------------------------------------------------- the summary
\* the order of Python strings on the column labels of the files above
LabelOrder == <<"make", "model", "price", "qty">>

LabelRank(name) == CHOOSE i \in 1..Len(LabelOrder) : LabelOrder[i] = name

\* lines 206-208: count, min and max of each numeric column (integers, which
\* round(2) leaves alone)
describe(df) ==
    LET cols == numeric_cols(df) IN
    [k \in 1..Len(cols) |->
        LET vals == {c[1] : c \in {x \in Range(Column(df, cols[k])) : x # NaN}}
            n == Cardinality({r \in 1..Len(df.rows) : Column(df, cols[k])[r] # NaN})
        IN [column |-> cols[k], count |-> n,
            min |-> IF vals = {} THEN NaN ELSE Some(Min(vals)),
            max |-> IF vals = {} THEN NaN ELSE Some(0 - Min({0 - v : v \in vals}))]]

\* lines 212-221
RECURSIVE freq_rows_from(_, _, _)
freq_rows_from(df, cols, k) ==
    IF k > Len(cols) THEN << >>
    ELSE LET vc == head(value_counts(Column(df, cols[k])), 5) IN
         [j \in 1..Len(vc) |->
             [Column |-> cols[k], Category |-> ToString(vc[j][1]), Count |-> vc[j][2]]]
         \o freq_rows_from(df, cols, k + 1)

\* lines 223-229: the frame of the rows, sorted by Column, then by Count, largest
\* first; a frame built from no rows has no columns, so sorting it by "Column"
\* raises KeyError
ranked(freq_rows) ==
    [j \in 1..Len(freq_rows) |->
        [row |-> freq_rows[j], rank |-> LabelRank(freq_rows[j].Column),
         Count |-> freq_rows[j].Count]]

unranked(sorted) == [j \in 1..Len(sorted) |-> sorted[j].row]

freq_table_of(freq_rows) ==
    IF freq_rows = << >> THEN [freq_table |-> None, error |-> "KeyError"]
    ELSE [freq_table |-> Some(unranked(StableSort(ranked(freq_rows), "column_then_count"))),
          error |-> "none"]

numeric_stats(df) == IF numeric_cols(df) # << >> THEN Some(describe(df)) ELSE None

\* lines 204-237: [stats, freq_table, error]
summary_section(df) ==
    [stats |-> numeric_stats(df)]
    @@ freq_table_of(freq_rows_from(df, categorical_cols(df), 1))

\* ---------------------------------------------------------------- the query
\* A query is the sequence of its words, "" the empty sequence; "w in q" is
\* taken word by word.
Queries == { <<"Highest", "price">>, <<"most", "CARS">>, <<"weather">> }

lower_word(w) == CASE w = "Highest" -> "highest" [] w = "CARS" -> "cars" [] OTHER -> w

lower(query) == [i \in 1..Len(query) |-> lower_word(query[i])]

Fallback == [kind |-> "info", text |-> "needs AI-based understanding", value |-> None]

Success(text, ans) ==
    IF ans = << >> THEN [answer |-> None, error |-> "IndexError"]
    ELSE [answer |-> Some([kind |-> "success", text |-> text, value |-> Some(ans[1][1])]),
          error |-> "none"]

has_column(df, c) == c \in Range(df.columns)

\* lines 251-253
best_brand(df) ==
    IF ~has_column(df, "price") THEN [answer |-> None, error |-> "KeyError"]
    ELSE IF ~df.numeric[ColIndex(df, "price")] THEN [answer |-> None, error |-> "TypeError"]
    ELSE Success("Best brand by average price",
                 head(StableSort(gb_mean(groupby(df, "make", "price")), "mean_descending"), 1))

\* lines 255-257
most_cars(df) == Success("Brand with most cars", head(value_counts(Column(df, "make")), 1))

dispatch(df, q) ==
    IF "highest" \in q /\ "price" \in q /\ has_column(df, "make") THEN best_brand(df)
    ELSE IF "most" \in q /\ "cars" \in q /\ has_column(df, "make") THEN most_cars(df)
    ELSE [answer |-> Some(Fallback), error |-> "none"]

\* lines 248-260: [answer, error]
query_section(df, query) ==
    IF query = << >> THEN [answer |-> None, error |-> "none"]
    ELSE dispatch(df, Range(lower(query)))

\* ---------------------------------------------------------------- one rerun
query_text(stored) == IF stored = None THEN << >> ELSE stored[1]

\* lines 72-87
script_store(df, add) ==
    IF add THEN Append(init_store(has_store, chart_configs), DefaultConfig(df))
    ELSE init_store(has_store, chart_configs)

\* lines 90-138
run_cards(df, store, w) == [i \in 1..Len(store) |-> Card(df, store[i], WidgetsAt(w, i))]

configs_of(cards) == [i \in 1..Len(cards) |-> cards[i].cfg]

\* lines 241-260
RunQuery(query, qs) ==
    /\ error' = qs.error
    /\ query_widget' = Some(query)
    /\ answer' = qs.answer

\* lines 29-260
RunLoaded(df, cards, gen, sm, query) ==
    /\ has_store' = TRUE
    /\ chart_configs' = configs_of(cards)
    /\ widgets' = [i \in 1..Len(cards) |-> cards[i].w]
    /\ charts' = IF gen THEN generate_all(df, configs_of(cards)) ELSE << >>
    /\ summary' = Some([stats |-> sm.stats, freq_table |-> sm.freq_table])
    /\ IF sm.error # "none"
       THEN /\ error' = sm.error
            /\ query_widget' = None
            /\ answer' = None
       ELSE RunQuery(query, query_section(df, query))

RunScript(df, w, qw, add, gen) ==
    RunLoaded(df, run_cards(df, script_store(df, add), w), gen, summary_section(df),
              query_text(qw))

\* The script, top to bottom (lines 24-263), run with the uploader holding `file`,
\* the session's widget values `w` and query text `qw`, and the two buttons'
\* values for this run.  An exception ends the run where it is raised: what was
\* painted before it stays, and a widget that was not reached loses its value.
Rerun(file, w, qw, add, gen, ev) ==
    /\ uploaded_file' = file
    /\ edits' = IF ev \in {"upload", "remove", "edit", "query"} THEN edits + 1 ELSE edits
    /\ last_event' = ev
    /\ IF file = None
       THEN /\ UNCHANGED <<has_store, chart_configs>>
            /\ widgets' = << >>
            /\ query_widget' = None
            /\ charts' = << >>
            /\ summary' = None
            /\ answer' = None
            /\ error' = "none"
       ELSE RunScript(read_file(file[1]), w, qw, add, gen)

loaded == uploaded_file # None

\* ---------------------------------------------------------------- interactions
\* the values the model's user picks among those the widgets offer
TopChoices == {5, 30}
ColorChoices == {"Plotly", "Set1", "Pastel"}

Upload(f) ==
    /\ edits < MaxEdits
    /\ uploaded_file # Some(f)
    /\ Rerun(Some(f), widgets, query_widget, FALSE, FALSE, "upload")

RemoveFile ==
    /\ loaded
    /\ edits < MaxEdits
    /\ Rerun(None, widgets, query_widget, FALSE, FALSE, "remove")

AddChart ==
    /\ loaded
    /\ Len(chart_configs) < MaxCharts
    /\ Rerun(uploaded_file, widgets, query_widget, TRUE, FALSE, "add")

GenerateAll ==
    /\ loaded
    /\ Rerun(uploaded_file, widgets, query_widget, FALSE, TRUE, "generate")

Edit(i, field, v, ev) ==
    /\ loaded
    /\ edits < MaxEdits
    /\ i \in 1..Len(widgets)
    /\ widgets[i][field] # Some(v)
    /\ Rerun(uploaded_file, [widgets EXCEPT ![i][field] = Some(v)], query_widget,
             FALSE, FALSE, ev)

EditType(i, v) == Edit(i, "type", v, "edit")

EditCategory(i, v) ==
    /\ loaded
    /\ v \in Range(read_file(uploaded_file[1]).columns)
    /\ Edit(i, "x", v, "edit")

ToggleAggregation(i) ==
    /\ i \in 1..Len(widgets)
    /\ Edit(i, "agg_check", ~checkbox(widgets[i].agg_check), "edit")

EditValue(i, v) ==
    /\ loaded
    /\ i \in 1..Len(widgets)
    /\ widgets[i].y # None
    /\ v \in Range(numeric_cols(read_file(uploaded_file[1])))
    /\ Edit(i, "y", v, "edit")

EditMethod(i, v) ==
    /\ i \in 1..Len(widgets)
    /\ widgets[i].agg # None
    /\ Edit(i, "agg", v, "edit")

EditColor(i, v) == Edit(i, "color", v, "edit")

EditTopN(i, v) == Edit(i, "top", v, "edit")

EnterQuery(q) ==
    /\ loaded
    /\ edits < MaxEdits
    /\ query_widget # None
    /\ query_widget # Some(q)
    /\ Rerun(uploaded_file, widgets, Some(q), FALSE, FALSE, "query")

McuIdle == [columns |-> << >>, i |-> 1, seen |-> << >>, new_cols |-> << >>, pc |-> "done"]

PlotIdle == [df |-> None, cfg |-> None, out |-> None, pc |-> "done"]

AppInit ==
    /\ uploaded_file = None
    /\ has_store = FALSE
    /\ chart_configs = << >>
    /\ widgets = << >>
    /\ query_widget = None
    /\ charts = << >>
    /\ summary = None
    /\ answer = None
    /\ error = "none"
    /\ last_event = "new_session"
    /\ edits = 0

\* a new session starts with an empty session state and one run of the script
NewSession ==
    /\ has_store
    /\ uploaded_file' = None
    /\ has_store' = FALSE
    /\ chart_configs' = << >>
    /\ widgets' = << >>
    /\ query_widget' = None
    /\ charts' = << >>
    /\ summary' = None
    /\ answer' = None
    /\ error' = "none"
    /\ last_event' = "new_session"
    /\ edits' = 0

Init == AppInit /\ mcu = McuIdle /\ plot = PlotIdle

Next ==
    \/ \E f \in Files : Upload(f) /\ UNCHANGED <<mcu, plot>>
    \/ RemoveFile /\ UNCHANGED <<mcu, plot>>
    \/ AddChart /\ UNCHANGED <<mcu, plot>>
    \/ GenerateAll /\ UNCHANGED <<mcu, plot>>
    \/ \E i \in 1..MaxCharts, v \in Range(ChartTypes) : EditType(i, v) /\ UNCHANGED <<mcu, plot>>
    \/ \E i \in 1..MaxCharts, v \in Range(LabelOrder) : EditCategory(i, v) /\ UNCHANGED <<mcu, plot>>
    \/ \E i \in 1..MaxCharts : ToggleAggregation(i) /\ UNCHANGED <<mcu, plot>>
    \/ \E i \in 1..MaxCharts, v \in Range(LabelOrder) : EditValue(i, v) /\ UNCHANGED <<mcu, plot>>
    \/ \E i \in 1..MaxCharts, v \in Range(AggMethods) : EditMethod(i, v) /\ UNCHANGED <<mcu, plot>>
    \/ \E i \in 1..MaxCharts, v \in ColorChoices : EditColor(i, v) /\ UNCHANGED <<mcu, plot>>
    \/ \E i \in 1..MaxCharts, v \in TopChoices : EditTopN(i, v) /\ UNCHANGED <<mcu, plot>>
    \/ \E q \in Queries \cup {<< >>} : EnterQuery(q) /\ UNCHANGED <<mcu, plot>>
    \/ NewSession /\ UNCHANGED <<mcu, plot>>

Spec == Init /\ [][Next]_vars


\* ---------------------------------------------------------------- make_columns_unique, step by step
Labels == {"a", "a.1", "b"}

InitCols ==
    /\ AppInit
    /\ plot = PlotIdle
    /\ mcu \in {[columns |-> c, i |-> 1, seen |-> << >>, new_cols |-> << >>, pc |-> "loop"] :
                  c \in SeqsUpTo(Labels, MaxCols)}

\* lines 14-20: one pass of the loop
McuStep ==
    /\ mcu.pc = "loop"
    /\ mcu.i <= Len(mcu.columns)
    /\ mcu' = [columns |-> mcu.columns, i |-> mcu.i + 1, pc |-> "loop"]
               @@ mcu_body([seen |-> mcu.seen, new_cols |-> mcu.new_cols], mcu.columns[mcu.i])
    /\ UNCHANGED <<appvars, plot>>

\* line 21
McuReturn ==
    /\ mcu.pc = "loop"
    /\ mcu.i > Len(mcu.columns)
    /\ mcu' = [mcu EXCEPT !.pc = "done"]
    /\ UNCHANGED <<appvars, plot>>

NextCols == McuStep \/ McuReturn

SpecCols == InitCols /\ [][NextCols]_vars

\* ---------------------------------------------------------------- one plot frame
\* frames with a text column "make" and a numeric column "price"
PlotCells == {<<m, p>> : m \in {NaN, Some(1), Some(2)}, p \in {NaN, Some(10), Some(20)}}

PlotFrames == {[columns |-> <<"make", "price">>, numeric |-> <<FALSE, TRUE>>, rows |-> r] :
                 r \in SeqsUpTo(PlotCells, MaxRows)}

\* the configurations a card can leave in the store for such a frame
PlotConfigs ==
    {Card([columns |-> <<"make", "price">>, numeric |-> <<FALSE, TRUE>>, rows |-> << >>],
          DefaultConfig([columns |-> <<"make", "price">>]),
          [NoWidgets EXCEPT !.type = Some(t), !.x = Some(x), !.agg_check = Some(b),
                            !.agg = Some(a)]).cfg :
        t \in Range(ChartTypes), x \in {"make", "price"}, b \in BOOLEAN,
        a \in Range(AggMethods)}

InitPlot ==
    /\ AppInit
    /\ mcu = McuIdle
    /\ plot \in {[df |-> Some(d), cfg |-> Some(c), out |-> None, pc |-> "build"] :
                   d \in PlotFrames, c \in PlotConfigs}

\* lines 153-164, 186-187
BuildPlot ==
    /\ plot.pc = "build"
    /\ plot' = [plot EXCEPT !.out = Some(plot_df(plot.df[1], plot.cfg[1])), !.pc = "done"]
    /\ UNCHANGED <<appvars, mcu>>

NextPlot == BuildPlot

SpecPlot == InitPlot /\ [][NextPlot]_vars

\* ================================================================ properties

\* ---------------------------------------------------------------- make_columns_unique
\* how many earlier positions of columns hold the name at position i
EarlierSame(columns, i) == Cardinality({j \in 1..(i - 1) : columns[j] = columns[i]})

\* C1: the list make_columns_unique returns never holds two equal names, whatever
\* the input list is (also when an input name already has the form name.k).
C1_NamesDistinct ==
    mcu.pc = "done" =>
        \A i, j \in 1..Len(mcu.new_cols) : i # j => mcu.new_cols[i] # mcu.new_cols[j]

\* C9: the returned list is as long as the input; position by position, the first
\* occurrence of a name is kept, and its n-th repeat becomes name.n.
C9_RepeatsSuffixed ==
    mcu.pc = "done" =>
        /\ Len(mcu.new_cols) = Len(mcu.columns)
        /\ \A i \in 1..Len(mcu.columns) :
              mcu.new_cols[i] =
                  IF EarlierSame(mcu.columns, i) = 0 THEN mcu.columns[i]
                  ELSE mcu.columns[i] \o "." \o ToString(EarlierSame(mcu.columns, i))
        /\ make_columns_unique(mcu.columns) = mcu.new_cols

C9_Witness ==
    /\ mcu.pc = "done"
    /\ mcu.columns = <<"a", "a", "a">>
    /\ mcu.new_cols = <<"a", "a.1", "a.2">>

\* ---------------------------------------------------------------- plot frames
BarOrLine(cfg) == cfg.chart_type \in {"Bar", "Line"}

Cell(df, name, r) == df.rows[r][ColIndex(df, name)]

Holding(df, x, c) == {r \in 1..Len(df.rows) : Cell(df, x, r) = Some(c)}

DistinctValues(df, x) ==
    {c[1] : c \in {Cell(df, x, r) : r \in 1..Len(df.rows)} \ {NaN}}

RECURSIVE SumValues(_)
SumValues(rows) == IF rows = << >> THEN 0 ELSE rows[1][2] + SumValues(Tail(rows))

RECURSIVE SumCells(_, _, _)
SumCells(df, y, R) ==
    IF R = {} THEN 0
    ELSE LET r == CHOOSE r \in R : TRUE IN Cell(df, y, r)[1] + SumCells(df, y, R \ {r})

\* rows is the frequency count of column x: one row per distinct value, holding
\* the number of rows of df with that value
IsFrequencyCount(df, x, rows) ==
    /\ Len(rows) = Cardinality(DistinctValues(df, x))
    /\ {rows[k][1] : k \in 1..Len(rows)} = DistinctValues(df, x)
    /\ \A k \in 1..Len(rows) : rows[k][2] = Cardinality(Holding(df, x, rows[k][1]))

\* the non-null entries of y among the rows of category c
Entries(df, x, y, c) == {r \in Holding(df, x, c) : Cell(df, y, r) # NaN}

IsAggregate(method, v, df, y, E) ==
    CASE method = "Sum" -> v = SumCells(df, y, E)
      [] method = "Count" -> v = Cardinality(E)
      [] method = "Mean" ->
           IF E = {} THEN v.den = 0
           ELSE v.den > 0 /\ v.num * Cardinality(E) = v.den * SumCells(df, y, E)

\* rows is the aggregation of y by x: one row per distinct category, ascending
IsAggregation(df, cfg, rows) ==
    /\ \A k \in 1..(Len(rows) - 1) : rows[k][1] < rows[k + 1][1]
    /\ {rows[k][1] : k \in 1..Len(rows)} = DistinctValues(df, cfg.x)
    /\ \A k \in 1..Len(rows) :
          IsAggregate(cfg.agg[1], rows[k][2], df, cfg.y[1],
                      Entries(df, cfg.x, cfg.y[1], rows[k][1]))

FrequencyCase(cfg) == (BarOrLine(cfg) /\ ~cfg.use_agg) \/ ~BarOrLine(cfg)

\* C5 as stated: a plot frame built by frequency counting has one row per distinct
\* category with the number of rows holding it, and its values sum to the number
\* of rows of the dataset, also when the category column has missing cells.
C5_CountsSumToRowCount ==
    (plot.pc = "done" /\ FrequencyCase(plot.cfg[1])) =>
        /\ IsFrequencyCount(plot.df[1], plot.cfg[1].x, plot.out[1].rows)
        /\ SumValues(plot.out[1].rows) = Len(plot.df[1].rows)

\* C5 amended: a plot frame built by frequency counting has one row per distinct
\* (non-missing) category with the number of rows holding it, and its values sum
\* to the number of rows whose category cell is not missing.
C5_CountsSumToNonMissing ==
    (plot.pc = "done" /\ FrequencyCase(plot.cfg[1])) =>
        /\ IsFrequencyCount(plot.df[1], plot.cfg[1].x, plot.out[1].rows)
        /\ SumValues(plot.out[1].rows) =
              Cardinality({r \in 1..Len(plot.df[1].rows) :
                              Cell(plot.df[1], plot.cfg[1].x, r) # NaN})

C5_Witness ==
    /\ plot.pc = "done"
    /\ FrequencyCase(plot.cfg[1])
    /\ plot.cfg[1].x = "make"
    /\ plot.df[1].rows = << <<Some(1), NaN>>, <<NaN, Some(10)>>, <<Some(2), Some(20)>> >>
    /\ SumValues(plot.out[1].rows) = 2

\* C8: for a Bar or Line configuration with aggregation enabled and a value column
\* set, the plot frame has one row per distinct category, in ascending order, with
\* the sum, mean or count of the non-null entries of the value column; for any
\* other Bar or Line configuration it is the frequency count of the category.
C8_AggregationOrFrequency ==
    (plot.pc = "done" /\ BarOrLine(plot.cfg[1])) =>
        IF plot.cfg[1].use_agg /\ plot.cfg[1].y # None
        THEN IsAggregation(plot.df[1], plot.cfg[1], plot.out[1].rows)
        ELSE IsFrequencyCount(plot.df[1], plot.cfg[1].x, plot.out[1].rows)

C8_Witness ==
    /\ plot.pc = "done"
    /\ plot.cfg[1].chart_type = "Bar"
    /\ plot.cfg[1].x = "make"
    /\ plot.cfg[1].y = Some("price")
    /\ plot.cfg[1].agg = Some("Mean")
    /\ plot.df[1].rows = << <<Some(2), Some(20)>>, <<Some(1), Some(10)>>, <<Some(1), Some(20)>> >>
    /\ plot.out[1].rows = << <<1, [num |-> 15, den |-> 1]>>, <<2, [num |-> 20, den |-> 1]>> >>

\* ---------------------------------------------------------------- the session
\* C2 as stated: no rerun inside a session removes a configuration, and after a
\* file is uploaded the store is empty.
C2_ClearedByUpload ==
    [][/\ last_event' \in {"edit", "add", "generate", "query"} =>
             Len(chart_configs') >= Len(chart_configs)
       /\ last_event' = "upload" => chart_configs' = << >>]_vars

\* C2 amended: no rerun inside a session removes a configuration, the reruns caused
\* by uploading or removing a file included, which leave the store's length as it
\* was; only a new session empties the store.
C2_KeptUntilNewSession ==
    [][/\ last_event' # "new_session" => Len(chart_configs') >= Len(chart_configs)
       /\ last_event' \in {"upload", "remove"} => Len(chart_configs') = Len(chart_configs)
       /\ last_event' = "new_session" => chart_configs' = << >>]_vars

C2_Witness ==
    /\ last_event = "upload"
    /\ Len(chart_configs) = 2
    /\ uploaded_file = Some("sales.csv")
    /\ chart_configs[1].x = "price"

\* C6: Add Chart grows the store by one element, placed last, which at the end of
\* that rerun holds the defaults (Bar, the first column, no value column, no
\* aggregation, top_n 15, Plotly); the elements already stored keep their index
\* and their field values.
C6_AddAppendsDefaults ==
    [][last_event' = "add" =>
          /\ Len(chart_configs') = Len(chart_configs) + 1
          /\ chart_configs'[Len(chart_configs')] =
                [chart_type |-> "Bar", x |-> Parsed(uploaded_file'[1]).columns[1],
                 y |-> None, use_agg |-> FALSE, agg |-> None, top_n |-> 15,
                 color_scheme |-> "Plotly"]
          /\ \A i \in 1..Len(chart_configs) : chart_configs'[i] = chart_configs[i]]_vars

C6_Witness ==
    /\ last_event = "add"
    /\ Len(chart_configs) = 2
    /\ chart_configs[1].chart_type = "Pie"
    /\ chart_configs[1].top_n = 30
    /\ chart_configs[2].chart_type = "Bar"

\* C7: a rerun in which Generate All Charts fired paints one chart per stored
\* configuration, in store order, the k-th built from the k-th configuration and
\* titled "Chart k"; nothing else is painted, and a rerun without the trigger
\* paints no chart.
C7_OneChartPerConfig ==
    IF last_event = "generate"
    THEN /\ Len(charts) = Len(chart_configs)
         /\ \A k \in 1..Len(charts) :
               /\ charts[k].title = "Chart " \o ToString(k)
               /\ charts[k].x = chart_configs[k].x
               /\ charts[k].colors = chart_configs[k].color_scheme
               /\ charts[k].kind = (CASE chart_configs[k].chart_type = "Bar" -> "bar"
                                      [] chart_configs[k].chart_type = "Line" -> "line"
                                      [] OTHER -> "pie")
               /\ (charts[k].hole # 0) = (chart_configs[k].chart_type = "Doughnut")
               /\ charts[k].data = plot_df(read_file(uploaded_file[1]), chart_configs[k])
    ELSE charts = << >>

C7_Witness ==
    /\ last_event = "generate"
    /\ Len(charts) = 2
    /\ charts[1].kind = "bar"
    /\ charts[2].kind = "pie"
    /\ charts[2].title = "Chart 2"

ValueColumnRequired(cfg) == cfg.use_agg /\ BarOrLine(cfg)

\* C10 as stated: at the end of every rerun with a dataset loaded, every stored
\* configuration has its value column and its aggregation method set exactly when
\* aggregation is enabled and the chart type is Bar or Line; a value column that is
\* set is numeric, a method that is set is Sum, Mean or Count, and the category
\* column is a column of the dataset.
C10_ValueColumnIffAggregation ==
    loaded =>
        \A i \in 1..Len(chart_configs) :
            /\ (chart_configs[i].y # None) = ValueColumnRequired(chart_configs[i])
            /\ (chart_configs[i].agg # None) = ValueColumnRequired(chart_configs[i])
            /\ chart_configs[i].y # None =>
                  chart_configs[i].y[1] \in Range(numeric_cols(read_file(uploaded_file[1])))
            /\ chart_configs[i].agg # None => chart_configs[i].agg[1] \in Range(AggMethods)
            /\ chart_configs[i].x \in Range(read_file(uploaded_file[1]).columns)

\* C10 amended: as stated, except that the value column is set exactly when
\* aggregation is enabled, the chart type is Bar or Line and the dataset has a
\* numeric column; with no numeric column it stays unset while the method is set.
C10_ValueColumnIffAvailable ==
    loaded =>
        \A i \in 1..Len(chart_configs) :
            /\ (chart_configs[i].y # None) =
                  (/\ ValueColumnRequired(chart_configs[i])
                   /\ numeric_cols(read_file(uploaded_file[1])) # << >>)
            /\ (chart_configs[i].agg # None) = ValueColumnRequired(chart_configs[i])
            /\ chart_configs[i].y # None =>
                  chart_configs[i].y[1] \in Range(numeric_cols(read_file(uploaded_file[1])))
            /\ chart_configs[i].agg # None => chart_configs[i].agg[1] \in Range(AggMethods)
            /\ chart_configs[i].x \in Range(read_file(uploaded_file[1]).columns)

C10_Witness ==
    /\ uploaded_file = Some("dealers.csv")
    /\ Len(chart_configs) >= 1
    /\ chart_configs[1].chart_type = "Bar"
    /\ chart_configs[1].use_agg
    /\ chart_configs[1].y = None
    /\ chart_configs[1].agg = Some("Sum")

\* C3: in every rerun with a dataset loaded the summary section completes and
\* paints its category-frequency table (which may be empty), and the query section
\* is then reached, whatever the columns' types are.
C3_SummaryCompletes ==
    loaded =>
        /\ summary # None
        /\ summary[1].freq_table # None
        /\ query_widget # None
        /\ query_widget[1] # << >> => (answer # None \/ error # "none")

\* C4: a non-empty query always ends in one of the three messages and never in a
\* failure: the best brand when it holds "highest" and "price" and there is a
\* "make" column, else the most frequent brand when it holds "most" and "cars" and
\* there is a "make" column, else the fallback.
C4_QueryNeverFails ==
    (loaded /\ query_widget # None /\ query_widget[1] # << >>) =>
        /\ error = "none"
        /\ answer # None
        /\ answer[1].text =
              (IF /\ {"highest", "price"} \subseteq Range(lower(query_widget[1]))
                  /\ "make" \in Range(Parsed(uploaded_file[1]).columns)
               THEN "Best brand by average price"
               ELSE IF /\ {"most", "cars"} \subseteq Range(lower(query_widget[1]))
                       /\ "make" \in Range(Parsed(uploaded_file[1]).columns)
               THEN "Brand with most cars"
               ELSE "needs AI-based understanding")

====
